---- MODULE Spec2Model ----
(***************************************************************************)
(* A model of the focus-aware notification plugin, src/plugins/notify.js.  *)
(* One event handler is one asynchronous task; every await on an external  *)
(* collaborator (session query, focus tool, pane tool, toast, OS banner)   *)
(* is a suspension point and so the boundary between two actions.          *)
(***************************************************************************)
EXTENDS Integers, Sequences, FiniteSets, TLC

VARIABLES
    config,   \* the configuration object, loaded once (notify.js:17-25)
    env,      \* process.env / process.platform as read by the plugin
    h,        \* per-task handler state: position, locals, effects so far
    calc      \* the last evaluation of one of the plugin's pure functions

vars == <<config, env, h, calc>>

(***************************************************************************)
(* JavaScript values.  `undefined`, `null` and a missing property are all  *)
(* written Undefined: every place the code reads them treats them alike    *)
(* (typeof x === "string", x || "", !x, x?.y).                             *)
(***************************************************************************)
Undefined == "<undefined>"

\* A value that is defined but is not a string (a number, an object).
NotAString == "<number>"

\* typeof v === "string"
IsString(v) == v \notin {Undefined, NotAString}

\* JavaScript truthiness of a string-or-undefined value.
Truthy(v) == v \notin {Undefined, ""}

(***************************************************************************)
(* Strings: character-level operations used by trim, toLowerCase, split.   *)
(***************************************************************************)
LowerChars == "abcdefghijklmnopqrstuvwxyz"
UpperChars == "ABCDEFGHIJKLMNOPQRSTUVWXYZ"
DigitChars == "0123456789"

CharAt(s, i) == SubSeq(s, i, i)

CharIn(c, alphabet) == \E i \in 1..Len(alphabet) : CharAt(alphabet, i) = c

IsSpace(c) == c \in {" ", "\t", "\n", "\r"}

\* [a-z0-9] after lower-casing
IsAlnum(c) == CharIn(c, LowerChars) \/ CharIn(c, DigitChars)

LowerChar(c) ==
    IF CharIn(c, UpperChars)
    THEN CharAt(LowerChars, CHOOSE i \in 1..Len(UpperChars) : CharAt(UpperChars, i) = c)
    ELSE c

RECURSIVE toLowerCase(_)
toLowerCase(s) ==
    IF Len(s) = 0 THEN "" ELSE LowerChar(CharAt(s, 1)) \o toLowerCase(SubSeq(s, 2, Len(s)))

RECURSIVE trimStart(_)
trimStart(s) ==
    IF Len(s) > 0 /\ IsSpace(CharAt(s, 1)) THEN trimStart(SubSeq(s, 2, Len(s))) ELSE s

RECURSIVE trimEnd(_)
trimEnd(s) ==
    IF Len(s) > 0 /\ IsSpace(CharAt(s, Len(s))) THEN trimEnd(SubSeq(s, 1, Len(s) - 1)) ELSE s

trim(s) == trimEnd(trimStart(s))

\* normalized.split(/[^a-z0-9]+/).filter(Boolean): the maximal alphanumeric runs
SplitParts(s) ==
    { SubSeq(s, i, j) : <<i, j>> \in
        { <<a, b>> \in (1..Len(s)) \X (1..Len(s)) :
            /\ a <= b
            /\ \A k \in a..b : IsAlnum(CharAt(s, k))
            /\ (a = 1 \/ ~IsAlnum(CharAt(s, a - 1)))
            /\ (b = Len(s) \/ ~IsAlnum(CharAt(s, b + 1))) } }

KNOWN_TERMINAL_EXACT ==
    { "ghostty", "kitty", "foot", "alacritty", "wezterm", "iterm2", "terminal",
      "hyper", "warp", "rio", "st", "urxvt", "xterm",
      "com.mitchellh.ghostty", "org.wezfurlong.wezterm", "org.alacritty.alacritty",
      "dev.warp.warp", "net.kovidgoyal.kitty" }

KNOWN_TERMINAL_TOKENS ==
    { "ghostty", "kitty", "foot", "alacritty", "wezterm", "iterm2", "terminal",
      "hyper", "warp", "rio", "urxvt", "xterm" }

\* isKnownTerminalIdentifier looking for a short name anywhere in the value.
isKnownTerminalIdentifier_Substring(value) ==
    IF ~IsString(value) THEN FALSE
    ELSE LET normalized == toLowerCase(trim(value))
         IN  IF normalized = "" THEN FALSE
             ELSE IF normalized \in KNOWN_TERMINAL_EXACT THEN TRUE
             ELSE \E i, j \in 1..Len(normalized) :
                      SubSeq(normalized, i, j) \in KNOWN_TERMINAL_TOKENS

isKnownTerminalIdentifier(value) ==
    IF ~IsString(value) THEN FALSE
    ELSE LET normalized == toLowerCase(trim(value))
         IN  IF normalized = "" THEN FALSE
             ELSE IF normalized \in KNOWN_TERMINAL_EXACT THEN TRUE
             ELSE \E part \in SplitParts(normalized) : part \in KNOWN_TERMINAL_TOKENS

(***************************************************************************)
(* Sessions and the session-query service.                                 *)
(***************************************************************************)
\* The value of `session` when no lookup produced one (undefined).
NoSession == [present |-> FALSE, id |-> Undefined, title |-> Undefined,
              slug |-> Undefined, parentID |-> Undefined]

Sess(id, title, slug, parentID) ==
    [present |-> TRUE, id |-> id, title |-> title, slug |-> slug, parentID |-> parentID]

\* The session snapshots the service may hold.
SessionPool ==
    { Sess("s1", "Build", "build-x", Undefined),
      Sess("s1", "  ", "fix-bug", "p1"),
      Sess("s2", Undefined, Undefined, Undefined) }

\* Longest session list the service returns in the model.
MaxListLen == 2

\* pickSessionLabel without the trim of the title.
pickSessionLabel_TitleUntrimmed(session, sessionID) ==
    IF ~session.present THEN sessionID
    ELSE LET title == IF IsString(session.title) THEN session.title ELSE ""
             slug  == IF IsString(session.slug) THEN trim(session.slug) ELSE ""
             id    == IF IsString(session.id) THEN trim(session.id) ELSE ""
         IN  IF title # "" THEN title
             ELSE IF slug # "" THEN slug
             ELSE IF id # "" THEN id
             ELSE sessionID

pickSessionLabel(session, sessionID) ==
    IF ~session.present THEN sessionID
    ELSE LET title == IF IsString(session.title) THEN trim(session.title) ELSE ""
             slug  == IF IsString(session.slug) THEN trim(session.slug) ELSE ""
             id    == IF IsString(session.id) THEN trim(session.id) ELSE ""
         IN  IF title # "" THEN title
             ELSE IF slug # "" THEN slug
             ELSE IF id # "" THEN id
             ELSE sessionID

\* Responses of client.session.get: it throws, resolves to a non-object,
\* to an object without data, or to an object carrying a session.
GetResponses ==
    { [status |-> "throw", data |-> NoSession],
      [status |-> "nonobject", data |-> NoSession],
      [status |-> "object", data |-> NoSession] }
    \cup { [status |-> "object", data |-> s] : s \in SessionPool }

unwrapData(result) ==
    IF result.status # "object" THEN NoSession ELSE result.data

\* Responses of client.session.list: it throws, or resolves to an object whose
\* data is not an array, or is an array of sessions.
ListResponses ==
    { [status |-> "throw", isArray |-> FALSE, items |-> << >>],
      [status |-> "object", isArray |-> FALSE, items |-> << >>] }
    \cup { [status |-> "object", isArray |-> TRUE, items |-> l] :
             l \in UNION { [1..n -> SessionPool] : n \in 0..MaxListLen } }

\* sessions.find((item) => item?.id === sessionID)
FindSession(items, sessionID) ==
    IF \E i \in 1..Len(items) : items[i].id = sessionID
    THEN items[CHOOSE i \in 1..Len(items) :
                 /\ items[i].id = sessionID
                 /\ \A j \in 1..(i - 1) : items[j].id # sessionID]
    ELSE NoSession

\* The third step of getSessionByID, on the response of session.list.
ListLookup(result, sessionID) ==
    IF result.status = "object" /\ result.isArray
    THEN FindSession(result.items, sessionID)
    ELSE NoSession

(***************************************************************************)
(* Focus detection: the output of the focus-query tool and its reading.    *)
(***************************************************************************)
\* What JSON.parse makes of the texts the focus tools print in the model:
\* it throws, or yields null, or an object of which only .class and .app_id
\* are read.
Parsed(ok, isNull, class, appId) ==
    [ok |-> ok, isNull |-> isNull, class |-> class, app_id |-> appId]

JsonTexts ==
    { "null", "{}", "{\"class\":\"kitty\"}", "{\"class\":\"firefox\"}", "{\"class\":5}",
      "{\"app_id\":\"org.wezfurlong.wezterm\"}", "{\"app_id\":\"\"}" }

JSONparse(text) ==
    CASE text = "null" -> Parsed(TRUE, TRUE, Undefined, Undefined)
      [] text = "{}" -> Parsed(TRUE, FALSE, Undefined, Undefined)
      [] text = "{\"class\":\"kitty\"}" -> Parsed(TRUE, FALSE, "kitty", Undefined)
      [] text = "{\"class\":\"firefox\"}" -> Parsed(TRUE, FALSE, "firefox", Undefined)
      [] text = "{\"class\":5}" -> Parsed(TRUE, FALSE, NotAString, Undefined)
      [] text = "{\"app_id\":\"org.wezfurlong.wezterm\"}" ->
             Parsed(TRUE, FALSE, Undefined, "org.wezfurlong.wezterm")
      [] text = "{\"app_id\":\"\"}" -> Parsed(TRUE, FALSE, Undefined, "")
      [] OTHER -> Parsed(FALSE, FALSE, Undefined, Undefined)

\* A spawned tool either fails to start (Bun.spawn throws: missing binary) or
\* prints a text on stdout.
ToolOut(spawned, text) == [spawned |-> spawned, text |-> text]

NoOutput == ToolOut(FALSE, "<none>")

FocusOutputs ==
    { ToolOut(FALSE, "") }
    \cup { ToolOut(TRUE, t) : t \in JsonTexts \cup { "", "Kitty\n", "Safari\n", " \n" } }

\* HyprlandFocused whose catch block answers "focused".
HyprlandFocused_CatchFocused(out) ==
    IF ~out.spawned THEN TRUE
    ELSE LET json == JSONparse(out.text)
         IN  IF ~json.ok THEN TRUE
             ELSE IF IsString(json.class) /\ Len(json.class) > 0
                  THEN isKnownTerminalIdentifier(json.class)
                  ELSE FALSE

\* notify.js:188-203, on the output of hyprctl
HyprlandFocused(out) ==
    IF ~out.spawned THEN FALSE
    ELSE LET json == JSONparse(out.text)
         IN  IF ~json.ok THEN FALSE
             ELSE IF IsString(json.class) /\ Len(json.class) > 0
                  THEN isKnownTerminalIdentifier(json.class)
                  ELSE FALSE

\* notify.js:206-222, on the output of niri msg
NiriFocused(out) ==
    IF ~out.spawned THEN FALSE
    ELSE LET json == JSONparse(out.text)
         IN  IF ~json.ok THEN FALSE
             ELSE IF json.isNull THEN FALSE
             ELSE IF IsString(json.app_id) /\ Len(json.app_id) > 0
                  THEN isKnownTerminalIdentifier(json.app_id)
                  ELSE FALSE

\* notify.js:225-238, on the output of osascript
MacFocused(out) ==
    IF ~out.spawned THEN FALSE
    ELSE LET name == trim(out.text)
         IN  IF Len(name) > 0 THEN isKnownTerminalIdentifier(name) ELSE FALSE

\* Strategy testing the Niri discriminator before the Hyprland one.
Strategy_NiriFirst(e) ==
    IF e.NIRI_SOCKET THEN "niri"
    ELSE IF e.HYPRLAND_INSTANCE_SIGNATURE THEN "hyprctl"
    ELSE IF e.platform = "darwin" THEN "osascript"
    ELSE "none"

\* The strategy isTerminalFocused selects from the environment.
Strategy(e) ==
    IF e.HYPRLAND_INSTANCE_SIGNATURE THEN "hyprctl"
    ELSE IF e.NIRI_SOCKET THEN "niri"
    ELSE IF e.platform = "darwin" THEN "osascript"
    ELSE "none"

\* The value isTerminalFocused returns once the selected tool has answered.
TerminalFocusedResult(e, out) ==
    CASE Strategy(e) = "hyprctl" -> HyprlandFocused(out)
      [] Strategy(e) = "niri" -> NiriFocused(out)
      [] Strategy(e) = "osascript" -> MacFocused(out)
      [] OTHER -> FALSE

(***************************************************************************)
(* Pane matching: the kitty listing and its reading.                       *)
(***************************************************************************)
NoId == -1

\* A kitty window (pane); flagged stands for
\* is_focused === true || focused === true || is_active === true.
Pane(id, flagged) == [id |-> id, flagged |-> flagged]

RECURSIVE StringOfNat(_)
StringOfNat(n) ==
    IF n < 10 THEN CharAt(DigitChars, n + 1)
    ELSE StringOfNat(n \div 10) \o CharAt(DigitChars, (n % 10) + 1)

\* The panes of a listing in window -> tab -> pane order.
RECURSIVE Flatten(_)
Flatten(ss) == IF Len(ss) = 0 THEN << >> ELSE Head(ss) \o Flatten(Tail(ss))

PanesInOrder(payload) == Flatten(Flatten(payload))

\* pickFocusedKittyWindowID without its first pass over the focus flags.
pickFocusedKittyWindowID_FirstWithId(isArray, payload) ==
    IF ~isArray THEN Undefined
    ELSE LET panes == PanesInOrder(payload)
             A == { i \in 1..Len(panes) : panes[i].id # NoId }
             Min(S) == CHOOSE i \in S : \A j \in S : i <= j
         IN  IF A # {} THEN StringOfNat(panes[Min(A)].id) ELSE Undefined

pickFocusedKittyWindowID(isArray, payload) ==
    IF ~isArray THEN Undefined
    ELSE LET panes == PanesInOrder(payload)
             F == { i \in 1..Len(panes) : panes[i].id # NoId /\ panes[i].flagged }
             A == { i \in 1..Len(panes) : panes[i].id # NoId }
             Min(S) == CHOOSE i \in S : \A j \in S : i <= j
         IN  IF F # {} THEN StringOfNat(panes[Min(F)].id)
             ELSE IF A # {} THEN StringOfNat(panes[Min(A)].id)
             ELSE Undefined

\* Output of `kitty @ ls`: the spawn throws, or stdout is blank, is not JSON,
\* or is JSON (an array of OS windows, or some other value).
PaneOut(status, isArray, payload) ==
    [status |-> status, isArray |-> isArray, payload |-> payload]

NoPaneOutput == PaneOut("<none>", FALSE, << >>)

PaneOutputs ==
    { PaneOut("throw", FALSE, << >>),
      PaneOut("blank", FALSE, << >>),
      PaneOut("unparsable", FALSE, << >>),
      PaneOut("json", FALSE, << >>),
      PaneOut("json", TRUE, << >>),
      PaneOut("json", TRUE, << << <<Pane(7, TRUE)>> >> >>),
      PaneOut("json", TRUE, << << <<Pane(7, FALSE), Pane(8, TRUE)>> >> >>),
      PaneOut("json", TRUE, << << <<Pane(8, FALSE)>>, <<Pane(7, FALSE)>> >> >>),
      PaneOut("json", TRUE, << << <<Pane(NoId, TRUE)>> >>, << <<Pane(7, FALSE)>> >> >>) }

\* The value isCurrentKittyWindowFocused returns once kitty has answered:
\* "true", "false" or "undefined".
CurrentKittyWindowFocused(currentWindowID, out) ==
    IF out.status # "json" THEN "undefined"
    ELSE LET focusedWindowID == pickFocusedKittyWindowID(out.isArray, out.payload)
         IN  IF ~Truthy(focusedWindowID) THEN "undefined"
             ELSE IF focusedWindowID = currentWindowID THEN "true" ELSE "false"

(***************************************************************************)
(* Events, configuration and environment.                                  *)
(***************************************************************************)
Ev(type, sessionID, errorType, errorMessage, title, permission) ==
    [type |-> type, sessionID |-> sessionID, errorType |-> errorType,
     errorMessage |-> errorMessage, title |-> title, permission |-> permission]

NoEvent == Ev("<none>", Undefined, Undefined, Undefined, Undefined, Undefined)

\* The events delivered to the plugin in the model.
Events ==
    { Ev("session.idle", "s1", Undefined, Undefined, Undefined, Undefined),
      Ev("session.error", "s1", "aborted", Undefined, Undefined, Undefined),
      Ev("session.error", "s1", "api", "rate limited", Undefined, Undefined),
      Ev("session.error", Undefined, "unknown", Undefined, Undefined, Undefined),
      Ev("question.asked", "s1", Undefined, Undefined, Undefined, Undefined),
      Ev("permission.updated", "s1", Undefined, Undefined, "Run bash", Undefined),
      Ev("permission.asked", "s1", Undefined, Undefined, Undefined, "edit"),
      Ev("message.updated", "s1", Undefined, Undefined, Undefined, Undefined) }

NonErrorKinds == { "session.idle", "question.asked", "permission.updated", "permission.asked" }

DEFAULT_CONFIG ==
    [suppressWhenFocused |-> TRUE, notifyOnError |-> TRUE, notifyOnPermission |-> TRUE,
     notifyOnQuestion |-> TRUE, notifyChildSessions |-> FALSE]

\* { ...DEFAULT_CONFIG, ...userConfig } over boolean user settings
Configs ==
    [suppressWhenFocused : BOOLEAN, notifyOnError : BOOLEAN, notifyOnPermission : BOOLEAN,
     notifyOnQuestion : BOOLEAN, notifyChildSessions : BOOLEAN]

Environments ==
    [HYPRLAND_INSTANCE_SIGNATURE : BOOLEAN, NIRI_SOCKET : BOOLEAN,
     platform : {"linux", "darwin", "win32"}, KITTY_WINDOW_ID : {Undefined, "7"}]

\* KindEnabled without the permission toggle.
KindEnabled_NoPermissionToggle(cfg, type) ==
    CASE type = "session.error" -> cfg.notifyOnError
      [] type = "question.asked" -> cfg.notifyOnQuestion
      [] OTHER -> TRUE

(***************************************************************************)
(* The handler's decisions, one operator per condition of the code.        *)
(***************************************************************************)
\* The per-kind toggle checked before anything else is done for the event.
KindEnabled(cfg, type) ==
    CASE type = "session.error" -> cfg.notifyOnError
      [] type = "question.asked" -> cfg.notifyOnQuestion
      [] type \in {"permission.updated", "permission.asked"} -> cfg.notifyOnPermission
      [] OTHER -> TRUE

\* IsAborted reading a field the error never has.
IsAborted_WrongField(ev) == ev.errorMessage = "aborted"

\* error?.type === "aborted"
IsAborted(ev) == ev.errorType = "aborted"

\* RequiresSession with the check forgotten in the permission handler.
RequiresSession_NotPermission(type) ==
    type \notin {"session.error", "permission.updated", "permission.asked"}

\* if (!session) return : present in every branch but session.error
RequiresSession(type) == type # "session.error"

\* ChildFiltered with the configuration test inverted.
ChildFiltered_Inverted(cfg, session) == cfg.notifyChildSessions /\ Truthy(session.parentID)

\* !config.notifyChildSessions && session.parentID
ChildFiltered(cfg, session) == ~cfg.notifyChildSessions /\ Truthy(session.parentID)

\* ShouldCheckFocus without the exemption of the error variant.
ShouldCheckFocus_AnyVariant(cfg, variant) == cfg.suppressWhenFocused

\* config.suppressWhenFocused && variant !== "error"
ShouldCheckFocus(cfg, variant) == cfg.suppressWhenFocused /\ variant # "error"

\* ShouldQueryPane without the test of the pane id.
ShouldQueryPane_AnyLinux(e) == e.platform = "linux"

\* process.platform === "linux" && process.env.KITTY_WINDOW_ID
ShouldQueryPane(e) == e.platform = "linux" /\ Truthy(e.KITTY_WINDOW_ID)

\* SuppressAfterPane taking an indeterminate pane result for "not focused".
SuppressAfterPane_UnknownNotifies(sameKittyWindowFocused, terminalFocused) ==
    sameKittyWindowFocused = "true"

\* suppressWhileFocused from the pane result (notify.js:291-297)
SuppressAfterPane(sameKittyWindowFocused, terminalFocused) ==
    CASE sameKittyWindowFocused = "true" -> TRUE
      [] sameKittyWindowFocused = "false" -> FALSE
      [] OTHER -> terminalFocused

\* SuppressWithoutPane never suppressing.
SuppressWithoutPane_Never(terminalFocused) == FALSE

\* suppressWhileFocused = terminalFocused (notify.js:298-300)
SuppressWithoutPane(terminalFocused) == terminalFocused

\* const shouldShowToast = variant === "error"
shouldShowToast(variant) == variant = "error"

\* if (suppressWhileFocused) return
ReturnsWhenSuppressed(suppressWhileFocused) == suppressWhileFocused

\* if (!process.env.KITTY_WINDOW_ID) return
BellCapable(e) == Truthy(e.KITTY_WINDOW_ID)

MaxMessageLength == 100
KeptLength == 97

\* message || fallback
OrElse(v, fallback) == IF Truthy(v) /\ IsString(v) THEN v ELSE fallback

ErrorMessage(ev) ==
    CASE ev.errorType = "provider_auth" -> "Auth error: " \o OrElse(ev.errorMessage, "")
      [] ev.errorType = "unknown" -> OrElse(ev.errorMessage, "Unknown error")
      [] ev.errorType = "output_length" -> "Output too long"
      [] ev.errorType = "api" -> "API error: " \o OrElse(ev.errorMessage, "")
      [] OTHER -> "Something went wrong"

\* Truncate cutting at the limit and then appending the ellipsis.
Truncate_EllipsisAfterLimit(fullMessage) ==
    IF Len(fullMessage) > MaxMessageLength
    THEN SubSeq(fullMessage, 1, MaxMessageLength) \o "..."
    ELSE fullMessage

Truncate(fullMessage) ==
    IF Len(fullMessage) > MaxMessageLength
    THEN SubSeq(fullMessage, 1, KeptLength) \o "..."
    ELSE fullMessage

PermissionDescription(ev) ==
    IF IsString(ev.title) THEN ev.title
    ELSE IF IsString(ev.permission) THEN ev.permission
    ELSE "Permission needed"

\* The arguments of sendNotification for an event and its session label.
Notification(ev, sessionLabel) ==
    CASE ev.type = "session.idle" ->
             [title |-> "Agent is ready for input", message |-> sessionLabel, variant |-> "info"]
      [] ev.type = "session.error" ->
             [title |-> "Error occurred",
              message |-> Truncate(sessionLabel \o ": " \o ErrorMessage(ev)),
              variant |-> "error"]
      [] ev.type = "question.asked" ->
             [title |-> "Question for you", message |-> sessionLabel, variant |-> "warning"]
      [] OTHER ->
             [title |-> "Permission needed",
              message |-> sessionLabel \o ": " \o PermissionDescription(ev),
              variant |-> "warning"]

(***************************************************************************)
(* The handler as a task: its locals and the effects it has caused.        *)
(***************************************************************************)
\* `result` of getSessionByID before any lookup has settled.
NoResult == [status |-> "<none>", data |-> NoSession]

NoListResult == [status |-> "<none>", isArray |-> FALSE, items |-> << >>]

\* The external calls the code wraps in a try/catch of their own:
\* notify.js:144-169 (lookups), 189-237 (focus tools), 107-122 (kitty),
\* 306-310 (toast), 314-318 (banner), 321-325 (bell).
TryCatchSites ==
    { "session.get(scoped)", "session.get", "session.list",
      "hyprctl", "niri", "osascript", "kitty-ls",
      "showToast", "sendOsNotification", "bell" }

\* Caught with the toast call outside any try/catch.
Caught_ToastUnguarded(site) == site \in TryCatchSites \ {"showToast"}

\* Caught with the banner call outside any try/catch.
Caught_BannerUnguarded(site) == site \in TryCatchSites \ {"sendOsNotification"}

\* Whether an exception thrown at `site` is caught where it is thrown.
Caught(site) == site \in TryCatchSites

\* The call at `site` threw: the catch block runs and the handler goes on as
\* `cont`; an exception nobody catches rejects the handler's promise.
Thrown(r, site, cont) ==
    IF Caught(site) THEN cont ELSE [r EXCEPT !.pc = "raised"]

\* getSessionByID after a lookup that threw or yielded nothing, skipping the
\* unscoped lookup.
NextLookup_SkipUnscoped(pc) ==
    [pc |-> "list", op |-> "session.list"]

\* getSessionByID after a lookup that threw or yielded nothing, asking the
\* same lookup again.
NextLookup_Retry(pc) ==
    IF pc = "get1" THEN [pc |-> "get1", op |-> "session.get(scoped)"]
    ELSE [pc |-> "list", op |-> "session.list"]

\* getSessionByID after a lookup that threw or yielded nothing: the next try
\* block (notify.js:152, 160).
NextLookup(pc) ==
    IF pc = "get1" THEN [pc |-> "get2", op |-> "session.get"]
    ELSE [pc |-> "list", op |-> "session.list"]

IdleH ==
    [pc |-> "idle", ev |-> NoEvent,
     session |-> NoSession, resolved |-> FALSE,
     passed |-> FALSE, title |-> "", message |-> "", variant |-> "",
     focusOut |-> NoOutput, terminalFocused |-> FALSE,
     paneOut |-> NoPaneOutput, sameKittyWindowFocused |-> "unset",
     suppressWhileFocused |-> FALSE,
     result |-> NoResult, listResult |-> NoListResult, returned |-> NoSession,
     failed |-> {},
     calls |-> << >>, toasts |-> << >>, banners |-> << >>]

Called(r, op) == \E i \in 1..Len(r.calls) : r.calls[i] = op

\* The handler returns.
Done(r) == [r EXCEPT !.pc = "done"]

\* markKittyTabNeedsInput up to the write of the bell character
markKittyTabNeedsInput(r) ==
    IF BellCapable(env)
    THEN [r EXCEPT !.pc = "bell", !.calls = Append(@, "bell")]
    ELSE Done(r)

\* notify.js:313-319 with sendOsNotification up to its await
SendBanner(r) ==
    IF ~r.suppressWhileFocused \/ r.variant = "error"
    THEN LET r1 == [r EXCEPT !.banners = Append(@, [title |-> r.title, message |-> r.message])]
         IN  CASE env.platform = "linux" ->
                      [r1 EXCEPT !.pc = "banner", !.calls = Append(@, "notify-send")]
               [] env.platform = "darwin" ->
                      [r1 EXCEPT !.pc = "banner", !.calls = Append(@, "osascript-notify")]
               [] OTHER -> markKittyTabNeedsInput(r1)
    ELSE markKittyTabNeedsInput(r)

\* notify.js:303-311: the early return, then the toast
Dispatch(r) ==
    IF ReturnsWhenSuppressed(r.suppressWhileFocused) THEN Done(r)
    ELSE IF shouldShowToast(r.variant)
         THEN [r EXCEPT !.pc = "toast", !.calls = Append(@, "showToast"),
                        !.toasts = Append(@, [title |-> r.title, message |-> r.message,
                                              variant |-> r.variant])]
         ELSE SendBanner(r)

\* notify.js:287-300, once isTerminalFocused has returned
AfterFocus(r) ==
    IF ~r.terminalFocused THEN Dispatch([r EXCEPT !.suppressWhileFocused = FALSE])
    ELSE IF ShouldQueryPane(env)
         THEN [r EXCEPT !.pc = "pane", !.calls = Append(@, "kitty-ls")]
         ELSE Dispatch([r EXCEPT !.suppressWhileFocused = SuppressWithoutPane(r.terminalFocused)])

\* sendNotification up to its first await
sendNotification(r, n) ==
    LET r1 == [r EXCEPT !.passed = TRUE, !.title = n.title, !.message = n.message,
                        !.variant = n.variant, !.suppressWhileFocused = FALSE]
    IN  IF ShouldCheckFocus(config, n.variant)
        THEN IF Strategy(env) = "none"
             THEN AfterFocus([r1 EXCEPT !.terminalFocused = FALSE])
             ELSE [r1 EXCEPT !.pc = "focus", !.calls = Append(@, Strategy(env))]
        ELSE Dispatch(r1)

\* The handler once getSessionByID has returned `session`.
AfterResolve(r, session) ==
    LET r1 == [r EXCEPT !.session = session, !.resolved = TRUE]
    IN  IF RequiresSession(r.ev.type) /\ ~session.present THEN Done(r1)
        ELSE IF ChildFiltered(config, session) THEN Done(r1)
        ELSE sendNotification(r1, Notification(r.ev, pickSessionLabel(session, r.ev.sessionID)))

\* getSessionByID up to its first await
getSessionByID(r) == [r EXCEPT !.pc = "get1", !.calls = Append(@, "session.get(scoped)")]

\* OnEvent resolving the session before it looks at the toggle and the
\* error type.
OnEvent_ResolveFirst(r) ==
    LET ev == r.ev
    IN  IF ev.type \notin NonErrorKinds \cup {"session.error"} THEN Done(r)
        ELSE IF Truthy(ev.sessionID) THEN getSessionByID(r)
        ELSE IF ~KindEnabled(config, ev.type) \/ IsAborted(ev) THEN Done(r)
        ELSE sendNotification(r, Notification(ev, "Unknown session"))

\* The event callback up to its first await.
OnEvent(r) ==
    LET ev == r.ev
    IN  IF ev.type \notin NonErrorKinds \cup {"session.error"} THEN Done(r)
        ELSE IF ~KindEnabled(config, ev.type) THEN Done(r)
        ELSE IF ev.type = "session.error"
             THEN IF IsAborted(ev) THEN Done(r)
                  ELSE IF Truthy(ev.sessionID) THEN getSessionByID(r)
                  ELSE sendNotification(r, Notification(ev, "Unknown session"))
             ELSE getSessionByID(r)

(***************************************************************************)
(* Actions: one per suspension point of the handler.                       *)
(***************************************************************************)
\* The tasks of the system with a single handler in flight.
Tasks == {"t1"}

\* No pure function evaluated on its own yet.
NoCalc ==
    [fn |-> "<none>", session |-> NoSession, sessionID |-> Undefined, ev |-> NoEvent,
     value |-> Undefined, label |-> "", message |-> "", known |-> FALSE,
     paneOut |-> NoPaneOutput, picked |-> Undefined, answer |-> "<none>"]

Init ==
    /\ config \in Configs
    /\ env \in Environments
    /\ h = [p \in Tasks |-> IdleH]
    /\ calc = NoCalc

\* Step with the focus result kept in one place for all handlers.
Step_SharedFocus(p, r) ==
    /\ h' = [q \in DOMAIN h |->
               IF q = p THEN r ELSE [h[q] EXCEPT !.terminalFocused = r.terminalFocused]]
    /\ UNCHANGED <<config, env, calc>>

Step(p, r) ==
    /\ h' = [h EXCEPT ![p] = r]
    /\ UNCHANGED <<config, env, calc>>

\* An event arrives and the callback runs to its first await or to its end.
Event(p, ev) ==
    /\ h[p].pc = "idle"
    /\ Step(p, OnEvent([IdleH EXCEPT !.ev = ev]))

\* A lookup of getSessionByID has settled with `result`: the function returns
\* the session it carries, or goes on to the next lookup.
LookupSettled(r, result) ==
    LET session == unwrapData(result)
        next == NextLookup(r.pc)
        onward == [r EXCEPT !.pc = next.pc, !.calls = Append(@, next.op), !.result = result]
    IN  IF result.status = "throw" THEN Thrown(r, r.calls[Len(r.calls)], onward)
        ELSE IF session.present
             THEN [r EXCEPT !.pc = "resolved", !.result = result, !.returned = session]
             ELSE onward

\* client.session.get({ sessionID, directory }) settles
SessionGetScoped(p, result) ==
    /\ h[p].pc = "get1"
    /\ Step(p, LookupSettled(h[p], result))

\* client.session.get({ sessionID }) settles
SessionGetUnscoped(p, result) ==
    /\ h[p].pc = "get2"
    /\ Step(p, LookupSettled(h[p], result))

\* client.session.list({ directory, limit: 100 }) settles
SessionList(p, result) ==
    /\ h[p].pc = "list"
    /\ LET back == [h[p] EXCEPT !.pc = "resolved", !.listResult = result,
                                !.returned = ListLookup(result, h[p].ev.sessionID)]
       IN  Step(p, IF result.status = "throw"
                   THEN Thrown(h[p], "session.list", back)
                   ELSE back)

\* The awaiting caller resumes with the value getSessionByID returned.
Resume(p) ==
    /\ h[p].pc = "resolved"
    /\ Step(p, AfterResolve([h[p] EXCEPT !.result = NoResult, !.listResult = NoListResult,
                                         !.returned = NoSession],
                            h[p].returned))

\* The focus-query tool of the selected strategy answers.
FocusTool(p, out) ==
    /\ h[p].pc = "focus"
    /\ LET threw == ~out.spawned \/ (Strategy(env) # "osascript" /\ ~JSONparse(out.text).ok)
           cont == AfterFocus([h[p] EXCEPT !.focusOut = out,
                                           !.terminalFocused = TerminalFocusedResult(env, out)])
       IN  Step(p, IF threw THEN Thrown(h[p], Strategy(env), cont) ELSE cont)

\* KittyLs asking kitty again after an answer that picked no pane.
KittyLs_Requery(p, out) ==
    /\ h[p].pc = "pane"
    /\ LET same == CurrentKittyWindowFocused(env.KITTY_WINDOW_ID, out)
           cont == Dispatch([h[p] EXCEPT
                 !.paneOut = out,
                 !.sameKittyWindowFocused = same,
                 !.suppressWhileFocused = SuppressAfterPane(same, h[p].terminalFocused)])
           again == [h[p] EXCEPT !.paneOut = out, !.calls = Append(@, "kitty-ls")]
       IN  Step(p, IF same = "undefined" /\ h[p].paneOut = NoPaneOutput THEN again ELSE cont)

\* kitty @ ls --match state:focused --output-format json answers.
KittyLs(p, out) ==
    /\ h[p].pc = "pane"
    /\ LET same == CurrentKittyWindowFocused(env.KITTY_WINDOW_ID, out)
           cont == Dispatch([h[p] EXCEPT
                 !.paneOut = out,
                 !.sameKittyWindowFocused = same,
                 !.suppressWhileFocused = SuppressAfterPane(same, h[p].terminalFocused)])
       IN  Step(p, IF out.status \in {"throw", "unparsable"}
                   THEN Thrown(h[p], "kitty-ls", cont)
                   ELSE cont)

\* client.tui.showToast settles: it resolved (ok) or rejected.
ShowToast(p, ok) ==
    /\ h[p].pc = "toast"
    /\ Step(p, IF ok THEN SendBanner(h[p])
               ELSE LET r == [h[p] EXCEPT !.failed = @ \cup {"showToast"}]
                    IN  Thrown(r, "showToast", SendBanner(r)))

\* sendOsNotification settles: notify-send / osascript exited (ok), or the
\* spawn threw.
OsNotification(p, ok) ==
    /\ h[p].pc = "banner"
    /\ Step(p, IF ok THEN markKittyTabNeedsInput(h[p])
               ELSE LET r == [h[p] EXCEPT !.failed = @ \cup {"sendOsNotification"}]
                    IN  Thrown(r, "sendOsNotification", markKittyTabNeedsInput(r)))

\* process.stdout.write("\x07") returns (ok) or throws.
BellWrite(p, ok) ==
    /\ h[p].pc = "bell"
    /\ Step(p, IF ok THEN Done(h[p])
               ELSE LET r == [h[p] EXCEPT !.failed = @ \cup {"bell"}]
                    IN  Thrown(r, "bell", Done(r)))

\* The callback's promise has settled; the task is free for the next event.
Return(p) ==
    /\ h[p].pc = "done"
    /\ Step(p, IdleH)

Next ==
    \/ \E p \in DOMAIN h, ev \in Events : Event(p, ev)
    \/ \E p \in DOMAIN h, result \in GetResponses : SessionGetScoped(p, result)
    \/ \E p \in DOMAIN h, result \in GetResponses : SessionGetUnscoped(p, result)
    \/ \E p \in DOMAIN h, result \in ListResponses : SessionList(p, result)
    \/ \E p \in DOMAIN h : Resume(p)
    \/ \E p \in DOMAIN h, out \in FocusOutputs : FocusTool(p, out)
    \/ \E p \in DOMAIN h, out \in PaneOutputs : KittyLs(p, out)
    \/ \E p \in DOMAIN h, ok \in BOOLEAN : ShowToast(p, ok)
    \/ \E p \in DOMAIN h, ok \in BOOLEAN : OsNotification(p, ok)
    \/ \E p \in DOMAIN h, ok \in BOOLEAN : BellWrite(p, ok)
    \/ \E p \in DOMAIN h : Return(p)

Spec == Init /\ [][Next]_vars

(***************************************************************************)
(* Two handlers in flight: the host delivers an event while the callback   *)
(* of an earlier one is suspended at an await.                             *)
(***************************************************************************)
ConcTasks == {"t1", "t2"}

ConcConfigs == { DEFAULT_CONFIG, [DEFAULT_CONFIG EXCEPT !.suppressWhenFocused = FALSE] }

ConcEnvironments ==
    { e \in Environments :
        /\ e.HYPRLAND_INSTANCE_SIGNATURE /\ ~e.NIRI_SOCKET
        /\ e.platform = "linux" }

ConcEvents ==
    { ev \in Events : ev.type \in {"session.idle", "session.error"} /\ ev.errorType # "aborted" }

ConcGetResponses ==
    { result \in GetResponses : result.status = "object" => result.data.id = "s1" }

ConcListResponses ==
    { result \in ListResponses :
        result.status = "object" =>
            /\ result.isArray /\ Len(result.items) = 1
            /\ result.items[1].id = "s1" }

ConcFocusOutputs ==
    { out \in FocusOutputs : out.spawned => out.text \in { "", "{\"class\":\"kitty\"}", "{\"class\":\"firefox\"}" } }

ConcPaneOutputs ==
    { out \in PaneOutputs : out.status = "json" => out.isArray /\ Len(out.payload) = 1 }

InitConc ==
    /\ config \in ConcConfigs
    /\ env \in ConcEnvironments
    /\ h = [p \in ConcTasks |-> IdleH]
    /\ calc = NoCalc

NextConc ==
    \/ \E p \in DOMAIN h, ev \in ConcEvents : Event(p, ev)
    \/ \E p \in DOMAIN h, result \in ConcGetResponses : SessionGetScoped(p, result)
    \/ \E p \in DOMAIN h, result \in ConcGetResponses : SessionGetUnscoped(p, result)
    \/ \E p \in DOMAIN h, result \in ConcListResponses : SessionList(p, result)
    \/ \E p \in DOMAIN h : Resume(p)
    \/ \E p \in DOMAIN h, out \in ConcFocusOutputs : FocusTool(p, out)
    \/ \E p \in DOMAIN h, out \in ConcPaneOutputs : KittyLs(p, out)
    \/ \E p \in DOMAIN h, ok \in BOOLEAN : ShowToast(p, ok)
    \/ \E p \in DOMAIN h, ok \in BOOLEAN : OsNotification(p, ok)
    \/ \E p \in DOMAIN h, ok \in BOOLEAN : BellWrite(p, ok)
    \/ \E p \in DOMAIN h : Return(p)

SpecConc == InitConc /\ [][NextConc]_vars

(***************************************************************************)
(* The pure functions evaluated on their own, over enumerated inputs.      *)
(***************************************************************************)
\* The plugin as loaded, before any event: default configuration, a Linux
\* process outside any compositor or multiplexer the plugin knows.
InitPure ==
    /\ config = DEFAULT_CONFIG
    /\ env = [HYPRLAND_INSTANCE_SIGNATURE |-> FALSE, NIRI_SOCKET |-> FALSE,
              platform |-> "linux", KITTY_WINDOW_ID |-> Undefined]
    /\ h = [p \in Tasks |-> IdleH]
    /\ calc = NoCalc

\* Values of a session's title, slug and id.
FieldValues == { Undefined, NotAString, "", "  ", " Build ", "x" }

\* Session identifiers carried by events.
SessionIDs == { "s1", "ses_9" }

LabelSessions ==
    { NoSession }
    \cup { Sess(id, title, slug, Undefined) :
             id \in FieldValues, title \in FieldValues, slug \in FieldValues }

\* pickSessionLabel(session, sessionID) is evaluated.
PickLabel(session, sessionID) ==
    /\ calc' = [NoCalc EXCEPT !.fn = "pickSessionLabel", !.session = session,
                              !.sessionID = sessionID,
                              !.label = pickSessionLabel(session, sessionID)]
    /\ UNCHANGED <<config, env, h>>

NextLabel == \E session \in LabelSessions, sessionID \in SessionIDs : PickLabel(session, sessionID)

SpecLabel == InitPure /\ [][NextLabel]_vars

\* Longest error text of a session.error event in the model.
MaxTextLen == 96

RECURSIVE Text(_)
\* A text of n characters whose positions can be told apart.
Text(n) == IF n = 0 THEN "" ELSE Text(n - 1) \o CharAt(DigitChars, ((n - 1) % 10) + 1)

ErrorTypes == { "provider_auth", "unknown", "output_length", "api", "timeout" }

ErrorTexts == { Undefined } \cup { Text(n) : n \in 0..MaxTextLen }

ErrorLabels == { "Build", "Unknown session" }

\* The body of a session.error notification is composed for a label.
ComposeError(sessionLabel, ev) ==
    /\ calc' = [NoCalc EXCEPT !.fn = "errorBody", !.ev = ev, !.label = sessionLabel,
                              !.message = Notification(ev, sessionLabel).message]
    /\ UNCHANGED <<config, env, h>>

ErrorEvents ==
    { Ev("session.error", "s1", type, text, Undefined, Undefined) :
        type \in ErrorTypes, text \in ErrorTexts }

NextMessage ==
    \E sessionLabel \in ErrorLabels, ev \in ErrorEvents : ComposeError(sessionLabel, ev)

SpecMessage == InitPure /\ [][NextMessage]_vars

\* Identifiers as the focus tools report them: a terminal's name or another
\* application's, bare, padded, inside a bundle identifier or inside a longer word.
IdentifierValues ==
    { Undefined, NotAString, "org.wezfurlong.wezterm", "com.unknown.app", "dev.warp.warp",
      "net.kovidgoyal.kitty.helper", "Terminal", "foot\n" }
    \cup { prefix \o name \o suffix :
             prefix \in { "", " ", "org.foo.", "x" },
             name \in { "kitty", "Kitty", "WARP", "st", "firefox", "", "iTerm2", "alacritty" },
             suffix \in { "", " ", "-git", "2" } }

\* isKnownTerminalIdentifier(value) is evaluated.
Identify(value) ==
    /\ calc' = [NoCalc EXCEPT !.fn = "isKnownTerminalIdentifier", !.value = value,
                              !.known = isKnownTerminalIdentifier(value)]
    /\ UNCHANGED <<config, env, h>>

NextIdentifier == \E value \in IdentifierValues : Identify(value)

SpecIdentifier == InitPure /\ [][NextIdentifier]_vars

\* Most panes in a listing of the model.
MaxPanes == 2

\* Panes as listed: without an id or with one, with or without a focus flag.
PaneValues == { Pane(id, flagged) : id \in {NoId, 7, 8}, flagged \in BOOLEAN }

PaneLists == UNION { [1..n -> PaneValues] : n \in 0..MaxPanes }

\* The panes of a list laid out in one tab, over two tabs of one OS window,
\* or over two OS windows.
Layouts(l) ==
    { << << l >> >> }
    \cup { << << SubSeq(l, 1, k), SubSeq(l, k + 1, Len(l)) >> >> : k \in 0..Len(l) }
    \cup { << << SubSeq(l, 1, k) >>, << SubSeq(l, k + 1, Len(l)) >> >> : k \in 0..Len(l) }

PaneListings ==
    PaneOutputs
    \cup { PaneOut("json", TRUE, payload) : payload \in UNION { Layouts(l) : l \in PaneLists } }

\* KITTY_WINDOW_ID of the plugin's own pane.
CurrentWindowIDs == { "7", "8" }

\* isCurrentKittyWindowFocused is about to be called in a pane whose id is
\* currentWindowID, and kitty @ ls will answer out.
PaneCalls ==
    { [NoCalc EXCEPT !.fn = "call isCurrentKittyWindowFocused",
                     !.value = currentWindowID, !.paneOut = out] :
        currentWindowID \in CurrentWindowIDs, out \in PaneListings }

InitPane ==
    /\ calc \in PaneCalls
    /\ config = DEFAULT_CONFIG
    /\ env = [HYPRLAND_INSTANCE_SIGNATURE |-> FALSE, NIRI_SOCKET |-> FALSE,
              platform |-> "linux", KITTY_WINDOW_ID |-> calc.value]
    /\ h = [p \in Tasks |-> IdleH]

\* isCurrentKittyWindowFocused runs on the answer of kitty @ ls.
MatchPane ==
    /\ calc.fn = "call isCurrentKittyWindowFocused"
    /\ calc' = [calc EXCEPT
                   !.fn = "isCurrentKittyWindowFocused",
                   !.picked = IF calc.paneOut.status = "json"
                              THEN pickFocusedKittyWindowID(calc.paneOut.isArray,
                                                            calc.paneOut.payload)
                              ELSE Undefined,
                   !.answer = CurrentKittyWindowFocused(calc.value, calc.paneOut)]
    /\ UNCHANGED <<config, env, h>>

NextPane == MatchPane

SpecPane == InitPane /\ [][NextPane]_vars

(***************************************************************************)
(* Observations used by the properties.                                    *)
(***************************************************************************)
\* The channels a handler has attempted so far.
Fired(r) ==
    (IF Len(r.toasts) > 0 THEN {"toast"} ELSE {})
    \cup (IF Len(r.banners) > 0 THEN {"banner"} ELSE {})
    \cup (IF Called(r, "bell") THEN {"bell"} ELSE {})

\* getSessionByID ran all three lookups and came back with nothing.
ResolvedAbsent(r) ==
    /\ r.resolved
    /\ ~r.session.present
    /\ Len(r.calls) >= 3
    /\ r.calls[1] = "session.get(scoped)" /\ r.calls[2] = "session.get"
    /\ r.calls[3] = "session.list"

\* The resolved session is a child session that the configuration excludes.
ExcludedChild(r) ==
    /\ r.resolved /\ r.session.present
    /\ r.session.parentID \notin {Undefined, ""}
    /\ ~config.notifyChildSessions

\* A non-error event that passed gating, resolution and the hierarchy filter.
NonErrorPassed(r) ==
    /\ r.ev.type \in NonErrorKinds
    /\ (r.ev.type = "question.asked" => config.notifyOnQuestion)
    /\ (r.ev.type \in {"permission.updated", "permission.asked"} => config.notifyOnPermission)
    /\ r.resolved /\ r.session.present
    /\ ~ExcludedChild(r)

\* A session.error event that passed the toggle, the abort test and the filter.
ErrorPassed(r) ==
    /\ r.ev.type = "session.error"
    /\ config.notifyOnError
    /\ r.ev.errorType # "aborted"
    /\ (r.ev.sessionID \notin {Undefined, ""} => r.resolved)
    /\ ~ExcludedChild(r)

(***************************************************************************)
(* Properties.                                                             *)
(***************************************************************************)
\* C1: a session.error event that passes the filters (notifyOnError on, error
\* type not "aborted", not an excluded child session) always has the desktop
\* banner attempted by the time its handler returns, whatever
\* suppressWhenFocused, the environment and the focus tools say; no focus or
\* pane query is made for it and it is never suppressed.
C1_ErrorBannerAlways ==
    \A p \in DOMAIN h :
        LET r == h[p]
        IN  ErrorPassed(r) =>
                /\ ~r.suppressWhileFocused
                /\ r.pc \notin {"focus", "pane"}
                /\ (r.pc = "done" =>
                       /\ Len(r.banners) = 1
                       /\ r.banners[1].title = "Error occurred")

\* C1 witness: an error notification delivered with suppression configured and
\* a focus strategy available.
C1_Witness ==
    \E p \in DOMAIN h :
        /\ ErrorPassed(h[p]) /\ h[p].pc = "done"
        /\ config.suppressWhenFocused
        /\ Strategy(env) # "none" /\ env.KITTY_WINDOW_ID = "7"
        /\ Len(h[p].banners) = 1

\* C2 (as claimed): every non-error event that passed the filters and was not
\* suppressed has, when its handler returns, one toast and one desktop banner
\* with the same title and message; for session.idle of the session titled
\* "Build" the toast is ("Agent is ready for input", "Build", "info").
C2_ToastAndBanner ==
    \A p \in DOMAIN h :
        LET r == h[p]
        IN  (NonErrorPassed(r) /\ r.pc = "done" /\ ~r.suppressWhileFocused) =>
                /\ Len(r.toasts) = 1 /\ Len(r.banners) = 1
                /\ r.toasts[1].title = r.banners[1].title
                /\ r.toasts[1].message = r.banners[1].message
                /\ (r.ev.type = "session.idle" /\ r.session.title = "Build" =>
                       r.toasts[1] = [title |-> "Agent is ready for input",
                                      message |-> "Build", variant |-> "info"])

\* C3 (as claimed): whenever a notification reached dispatch in a process with
\* a pane id in its environment, the bell has been written by the time the
\* handler returns, suppressed or not.
C3_BellRegardless ==
    \A p \in DOMAIN h :
        LET r == h[p]
        IN  (r.passed /\ r.pc = "done" /\ env.KITTY_WINDOW_ID = "7") => Called(r, "bell")

C5_ChildNeverNotifies ==
    \A p \in DOMAIN h :
        ExcludedChild(h[p]) => (h[p].pc = "done" /\ Fired(h[p]) = {} /\ ~h[p].passed)

\* C5 witness: an error event of an excluded child session, handled to the end.
C5_Witness ==
    \E p \in DOMAIN h :
        /\ ExcludedChild(h[p]) /\ h[p].pc = "done"
        /\ h[p].ev.type = "session.error" /\ ~config.suppressWhenFocused

\* C6: a session.error event whose error type is "aborted" never fires a
\* channel.
C6_AbortedNeverNotifies ==
    \A p \in DOMAIN h :
        (h[p].ev.type = "session.error" /\ h[p].ev.errorType = "aborted") =>
            (Fired(h[p]) = {} /\ ~h[p].passed /\ h[p].pc = "done")

\* C6 witness: an aborted error handled with error notifications switched on.
C6_Witness ==
    \E p \in DOMAIN h :
        /\ h[p].ev.type = "session.error" /\ h[p].ev.errorType = "aborted"
        /\ h[p].pc = "done" /\ config.notifyOnError /\ config.notifyChildSessions

\* The channels a returned session.idle handler must have fired, written
\* without any of the three per-kind toggles.
IdleChannels(r) ==
    IF \/ ~r.session.present
       \/ ExcludedChild(r)
       \/ (config.suppressWhenFocused /\ r.terminalFocused
              /\ r.sameKittyWindowFocused # "false")
    THEN {}
    ELSE {"banner"} \cup (IF env.KITTY_WINDOW_ID = "7" THEN {"bell"} ELSE {})

\* C7: an event whose per-kind toggle is off (notifyOnError for session.error,
\* notifyOnPermission for the two permission kinds, notifyOnQuestion for
\* question.asked) ends with no channel fired; a session.idle event is always
\* resolved, and the channels it fires are determined without the toggles.
C7_ToggleGating ==
    \A p \in DOMAIN h :
        LET r == h[p]
            off == \/ r.ev.type = "session.error" /\ ~config.notifyOnError
                   \/ r.ev.type = "question.asked" /\ ~config.notifyOnQuestion
                   \/ r.ev.type \in {"permission.updated", "permission.asked"}
                          /\ ~config.notifyOnPermission
        IN  /\ off => (r.pc = "done" /\ Fired(r) = {} /\ ~r.passed)
            /\ (r.ev.type = "session.idle" /\ r.pc = "done") =>
                   (r.resolved /\ Fired(r) = IdleChannels(r))

\* C7 witness: a session.idle event notified with all three toggles off.
C7_Witness ==
    \E p \in DOMAIN h :
        /\ h[p].ev.type = "session.idle" /\ h[p].pc = "done"
        /\ ~config.notifyOnError /\ ~config.notifyOnPermission /\ ~config.notifyOnQuestion
        /\ "banner" \in Fired(h[p])

PaneRefines(r) ==
    /\ Called(r, "kitty-ls")
    /\ r.sameKittyWindowFocused \in {"true", "false", "undefined"}
    /\ r.sameKittyWindowFocused = "false" =>
           (~r.suppressWhileFocused /\ Len(r.banners) = 1)
    /\ r.sameKittyWindowFocused \in {"true", "undefined"} =>
           (r.suppressWhileFocused /\ r.banners = << >>)

\* C9 (as claimed): with suppressWhenFocused on, a non-error event, the focus
\* detector answering focused and a pane id in the environment, the pane
\* matcher is queried and refines the verdict: NotFocused delivers, Focused and
\* Unknown suppress.
C9_PaneRefinesWithPaneId ==
    \A p \in DOMAIN h :
        LET r == h[p]
        IN  (NonErrorPassed(r) /\ r.pc = "done" /\ config.suppressWhenFocused
                /\ r.terminalFocused /\ env.KITTY_WINDOW_ID = "7") => PaneRefines(r)

\* C9 (amended): the same, provided the platform is Linux; on any other
\* platform the pane matcher is not queried and the focused verdict suppresses.
C9_PaneRefinesOnLinux ==
    \A p \in DOMAIN h :
        LET r == h[p]
        IN  (NonErrorPassed(r) /\ r.pc = "done" /\ config.suppressWhenFocused
                /\ r.terminalFocused /\ env.KITTY_WINDOW_ID = "7") =>
                IF env.platform = "linux" THEN PaneRefines(r)
                ELSE /\ ~Called(r, "kitty-ls")
                     /\ r.suppressWhileFocused /\ r.banners = << >>

\* C9 witness: on Linux, a pane result NotFocused overrode the suppression.
C9_Witness ==
    \E p \in DOMAIN h :
        /\ NonErrorPassed(h[p]) /\ h[p].pc = "done" /\ config.suppressWhenFocused
        /\ h[p].terminalFocused /\ env.KITTY_WINDOW_ID = "7" /\ env.platform = "linux"
        /\ h[p].sameKittyWindowFocused = "false" /\ Len(h[p].banners) = 1

\* Outputs of the selected focus tool that are empty, unparsable or malformed
\* (JSON without the string field the strategy reads).
BadFocusTexts(strategy) ==
    CASE strategy = "hyprctl" ->
             { "", " \n", "Kitty\n", "Safari\n", "null", "{}", "{\"class\":5}",
               "{\"app_id\":\"org.wezfurlong.wezterm\"}", "{\"app_id\":\"\"}" }
      [] strategy = "niri" ->
             { "", " \n", "Kitty\n", "Safari\n", "null", "{}", "{\"class\":5}",
               "{\"class\":\"kitty\"}", "{\"class\":\"firefox\"}", "{\"app_id\":\"\"}" }
      [] OTHER -> { "", " \n" }

\* C10: when the selected focus tool could not be started, or printed empty,
\* unparsable or malformed output, isTerminalFocused answered not-focused and
\* the handler went on: the notification is not suppressed and its banner is
\* attempted.
C10_FocusFailsOpen ==
    \A p \in DOMAIN h :
        LET r == h[p]
        IN  (/\ r.focusOut # NoOutput
             /\ (~r.focusOut.spawned \/ r.focusOut.text \in BadFocusTexts(Strategy(env)))) =>
                /\ ~r.terminalFocused
                /\ ~r.suppressWhileFocused
                /\ r.pc \in {"banner", "bell", "done"}
                /\ Len(r.banners) = 1

\* C10 witness: a notification delivered after hyprctl could not be started.
C10_Witness ==
    \E p \in DOMAIN h :
        /\ h[p].pc = "done" /\ Strategy(env) = "hyprctl"
        /\ h[p].focusOut = ToolOut(FALSE, "")
        /\ Len(h[p].banners) = 1 /\ h[p].ev.type = "question.asked"

\* The focus-query tools a handler has invoked so far.
FocusToolsUsed(r) == { t \in {"hyprctl", "niri", "osascript"} : Called(r, t) }

\* C11: isTerminalFocused uses one strategy, chosen in the order Hyprland
\* signature, Niri socket, darwin platform: the tools of the strategies after
\* the selected one are never invoked, whatever the selected tool answered;
\* once the focus check of a notification has started, the selected tool is
\* the one invoked; with no discriminator no tool is invoked and the answer
\* is not-focused.
C11_StrategyPriority ==
    \A p \in DOMAIN h :
        LET r == h[p]
            selected ==
                IF env.HYPRLAND_INSTANCE_SIGNATURE THEN {"hyprctl"}
                ELSE IF env.NIRI_SOCKET THEN {"niri"}
                ELSE IF env.platform = "darwin" THEN {"osascript"}
                ELSE {}
        IN  /\ FocusToolsUsed(r) \subseteq selected
            /\ (r.passed /\ r.variant # "error" /\ config.suppressWhenFocused) =>
                   FocusToolsUsed(r) = selected
            /\ selected = {} => (~r.terminalFocused /\ r.focusOut = NoOutput)

\* C11 witness: with all three discriminators present, hyprctl could not be
\* started and the handler finished without trying niri or osascript.
C11_Witness ==
    \E p \in DOMAIN h :
        /\ env.HYPRLAND_INSTANCE_SIGNATURE /\ env.NIRI_SOCKET /\ env.platform = "darwin"
        /\ h[p].pc = "done" /\ h[p].focusOut = ToolOut(FALSE, "")
        /\ FocusToolsUsed(h[p]) = {"hyprctl"}

\* A lookup response that carries a session.
YieldsSession(result) == result.status = "object" /\ result.data.present

\* C12: getSessionByID asks the scoped get, then the unscoped get, then the
\* scoped list, in that order; it returns the session of the first lookup that
\* yields one and asks nothing further; a lookup that throws or yields nothing
\* is followed by the next one; it returns absent exactly when both gets failed
\* and the list threw, was no array or held no session with the id.
C12_LookupOrder ==
    \A p \in DOMAIN h :
        LET r == h[p]
            sid == r.ev.sessionID
            items == r.listResult.items
            matches == IF r.listResult.status = "object" /\ r.listResult.isArray
                       THEN { i \in 1..Len(items) : items[i].id = sid }
                       ELSE {}
        IN  /\ r.pc = "get1" => r.calls = <<"session.get(scoped)">>
            /\ r.pc = "get2" =>
                   /\ r.calls = <<"session.get(scoped)", "session.get">>
                   /\ r.result # NoResult /\ ~YieldsSession(r.result)
            /\ r.pc = "list" =>
                   /\ r.calls = <<"session.get(scoped)", "session.get", "session.list">>
                   /\ r.result # NoResult /\ ~YieldsSession(r.result)
            /\ r.pc = "resolved" =>
                   \/ /\ r.calls \in { <<"session.get(scoped)">>,
                                       <<"session.get(scoped)", "session.get">> }
                      /\ YieldsSession(r.result) /\ r.returned = r.result.data
                      /\ r.listResult = NoListResult
                   \/ /\ r.calls = <<"session.get(scoped)", "session.get", "session.list">>
                      /\ ~YieldsSession(r.result) /\ r.listResult # NoListResult
                      /\ IF matches = {} THEN ~r.returned.present
                         ELSE \E i \in matches :
                                 /\ r.returned = items[i]
                                 /\ \A j \in matches : i <= j

\* C12 witness: both gets failed (the second by throwing) and the list's second
\* entry was the session asked for.
C12_Witness ==
    \E p \in DOMAIN h :
        /\ h[p].pc = "resolved" /\ Len(h[p].calls) = 3
        /\ h[p].result.status = "throw"
        /\ Len(h[p].listResult.items) = 2
        /\ h[p].listResult.items[1].id = "s2"
        /\ h[p].returned = h[p].listResult.items[2]
        /\ h[p].returned.present

\* C13: a failed toast does not keep the banner from being attempted, nor the
\* bell from being written; a failed banner does not keep the bell from being
\* written; a failed bell write ends the handler normally.
C13_ChannelsIsolated ==
    \A p \in DOMAIN h :
        LET r == h[p]
            inKitty == env.KITTY_WINDOW_ID = "7"
        IN  /\ "showToast" \in r.failed =>
                   /\ r.pc \in {"banner", "bell", "done"}
                   /\ Len(r.banners) = 1
                   /\ (r.pc = "done" /\ inKitty) => Called(r, "bell")
            /\ "sendOsNotification" \in r.failed =>
                   /\ r.pc \in {"bell", "done"}
                   /\ inKitty => Called(r, "bell")
            /\ "bell" \in r.failed => r.pc = "done"

\* C13 witness: toast and banner both failed and the bell was still written.
C13_Witness ==
    \E p \in DOMAIN h :
        /\ h[p].pc = "done"
        /\ {"showToast", "sendOsNotification"} \subseteq h[p].failed
        /\ Len(h[p].toasts) = 1 /\ Len(h[p].banners) = 1 /\ Called(h[p], "bell")

\* C14: the handling of an event never ends in an uncaught exception, whatever
\* the session queries, the focus and pane tools, the toast, the banner and the
\* bell write do; a handler that is not waiting on a collaborator has returned.
C14_NeverRaises ==
    \A p \in DOMAIN h :
        h[p].pc \in {"idle", "get1", "get2", "list", "resolved", "focus", "pane",
                     "toast", "banner", "bell", "done"}

\* C14 witness: an error event handled to the end although all three lookups
\* came back without a session and toast, banner and bell write all failed.
C14_Witness ==
    \E p \in DOMAIN h :
        /\ h[p].pc = "done" /\ h[p].ev.type = "session.error"
        /\ ResolvedAbsent(h[p])
        /\ h[p].failed = {"showToast", "sendOsNotification", "bell"}

\* What trimming makes of a field value, written out for the values used.
TrimmedField(v) ==
    CASE v = " Build " -> "Build"
      [] v = "x" -> "x"
      [] OTHER -> ""

\* C15: the label is the trimmed title if that is non-empty, else the trimmed
\* slug if non-empty, else the trimmed id if non-empty, else the raw session
\* identifier; without a session it is the raw identifier; it is never empty.
C15_LabelOrder ==
    calc.fn = "pickSessionLabel" =>
        LET ses == calc.session
            title == TrimmedField(ses.title)
            slug == TrimmedField(ses.slug)
            id == TrimmedField(ses.id)
        IN  /\ calc.label =
                   (IF ~ses.present THEN calc.sessionID
                    ELSE IF title # "" THEN title
                    ELSE IF slug # "" THEN slug
                    ELSE IF id # "" THEN id
                    ELSE calc.sessionID)
            /\ calc.label # ""

\* C15 witness: a whitespace-only title and a missing slug let the id through.
C15_Witness ==
    /\ calc.fn = "pickSessionLabel"
    /\ calc.session.title = "  " /\ calc.session.slug = Undefined
    /\ calc.session.id = " Build " /\ calc.label = "Build"

\* The error text shown for an error event, by type.
ErrorTextOf(ev) ==
    LET given == IF ev.errorMessage = Undefined THEN "" ELSE ev.errorMessage
    IN  CASE ev.errorType = "provider_auth" -> "Auth error: " \o given
          [] ev.errorType = "api" -> "API error: " \o given
          [] ev.errorType = "unknown" -> IF given = "" THEN "Unknown error" ELSE given
          [] ev.errorType = "output_length" -> "Output too long"
          [] OTHER -> "Something went wrong"

\* C16: the body of an error notification is "<label>: <error message>",
\* unmodified when at most 100 characters long, else its first 97 characters
\* followed by "...", 100 characters in all; it never exceeds 100 characters.
C16_ErrorBodyTruncated ==
    calc.fn = "errorBody" =>
        LET full == calc.label \o ": " \o ErrorTextOf(calc.ev)
        IN  /\ Len(full) <= 100 => calc.message = full
            /\ Len(full) > 100 =>
                   /\ calc.message = SubSeq(full, 1, 97) \o "..."
                   /\ Len(calc.message) = 100
            /\ Len(calc.message) <= 100

\* C16 witness: a body of 101 characters is cut, one of exactly 100 is not.
C16_Witness ==
    /\ calc.fn = "errorBody"
    /\ calc.label = "Build" /\ calc.ev.errorType = "api"
    /\ Len(calc.ev.errorMessage) = 83
    /\ Len(calc.message) = 100
    /\ SubSeq(calc.message, 98, 100) = "..."

\* t occurs in n as a whole token: bounded on both sides by the end of n or
\* by a character that is neither a letter nor a digit.
OccursAsToken(t, n) ==
    \E i \in 1..Len(n) :
        /\ i + Len(t) - 1 <= Len(n)
        /\ SubSeq(n, i, i + Len(t) - 1) = t
        /\ (i = 1 \/ ~IsAlnum(CharAt(n, i - 1)))
        /\ (i + Len(t) - 1 = Len(n) \/ ~IsAlnum(CharAt(n, i + Len(t))))

\* C17: isKnownTerminalIdentifier(value) is true iff value, trimmed and
\* lower-cased, is non-empty and equals an entry of the exact set or has a
\* token, between non-alphanumeric boundaries, equal to a short name; so
\* "org.wezfurlong.wezterm", "Kitty" and " WARP " match and "firefox", ""
\* and "com.unknown.app" do not.
C17_KnownTerminalIdentifier ==
    calc.fn = "isKnownTerminalIdentifier" =>
        /\ calc.known <=>
               /\ IsString(calc.value)
               /\ LET n == toLowerCase(trim(calc.value))
                  IN  /\ n # ""
                      /\ \/ n \in KNOWN_TERMINAL_EXACT
                         \/ \E t \in KNOWN_TERMINAL_TOKENS : OccursAsToken(t, n)
        /\ calc.value \in { "org.wezfurlong.wezterm", "Kitty", " WARP " } => calc.known
        /\ calc.value \in { "firefox", "", "com.unknown.app" } => ~calc.known

\* C17 witness: a short name inside a longer word is not a token of its own.
C17_Witness ==
    /\ calc.fn = "isKnownTerminalIdentifier"
    /\ calc.value = "org.foo.kitty2"
    /\ ~calc.known

\* The external operations, each with the names under which it is invoked.
ExternalOperations ==
    { {"session.get(scoped)"}, {"session.get"}, {"session.list"},
      {"hyprctl", "niri", "osascript"}, {"kitty-ls"}, {"showToast"},
      {"notify-send", "osascript-notify"}, {"bell"} }

\* C19: within the handling of one event every external operation (scoped
\* get, unscoped get, list, focus query, pane query, toast, banner, bell
\* write) is invoked at most once, so none is re-attempted after a failure.
C19_AtMostOnce ==
    \A p \in DOMAIN h : \A operation \in ExternalOperations :
        Cardinality({ i \in 1..Len(h[p].calls) : h[p].calls[i] \in operation }) <= 1

\* C19 witness: a handling that went through seven operations, the last two
\* of which failed, and returned.
C19_Witness ==
    \E p \in DOMAIN h :
        /\ h[p].pc = "done"
        /\ Len(h[p].calls) = 7
        /\ h[p].failed = {"sendOsNotification", "bell"}

\* C20: a focus-query tool is invoked only for a non-error event that passed
\* gating, resolution and the hierarchy filter, with suppressWhenFocused on;
\* the pane query only if, in addition, the environment has a pane id and
\* the focus query has already reported the terminal focused.
C20_QueriesOnlyWhenRelevant ==
    \A p \in DOMAIN h :
        LET r == h[p]
        IN  /\ (FocusToolsUsed(r) # {} \/ Called(r, "kitty-ls")) =>
                   /\ NonErrorPassed(r)
                   /\ config.suppressWhenFocused
            /\ Called(r, "kitty-ls") =>
                   /\ Truthy(env.KITTY_WINDOW_ID)
                   /\ FocusToolsUsed(r) # {}
                   /\ r.focusOut # NoOutput
                   /\ r.terminalFocused

\* C20 witness: the pane query is under way after the focus query reported
\* the terminal focused.
C20_Witness ==
    \E p \in DOMAIN h :
        /\ h[p].pc = "pane"
        /\ h[p].terminalFocused
        /\ Called(h[p], "kitty-ls")

\* The channels an event fires when it is handled alone, as a function of
\* the event and of the answers its own handling received: the resolved
\* session, the focus tool's output and the pane query's output.
AloneFired(r) ==
    LET ev == r.ev
        error == ev.type = "session.error"
        gated == /\ ev.type \in NonErrorKinds \cup {"session.error"}
                 /\ KindEnabled(config, ev.type)
                 /\ ~(error /\ ev.errorType = "aborted")
        passes == /\ gated
                  /\ (~error => r.session.present)
                  /\ ~(~config.notifyChildSessions /\ r.session.parentID \notin {Undefined, ""})
        focused == Strategy(env) # "none" /\ TerminalFocusedResult(env, r.focusOut)
        samePane == CurrentKittyWindowFocused(env.KITTY_WINDOW_ID, r.paneOut)
        suppressed == /\ config.suppressWhenFocused /\ ~error
                      /\ focused
                      /\ (env.platform = "linux" /\ env.KITTY_WINDOW_ID # Undefined
                              => samePane # "false")
    IN  IF ~passes \/ suppressed THEN {}
        ELSE (IF error THEN {"toast"} ELSE {})
             \cup {"banner"}
             \cup (IF BellCapable(env) THEN {"bell"} ELSE {})

\* Each handler has fired what its event fires alone under the same answers.
FiredAsAlone ==
    \A p \in DOMAIN h :
        /\ h[p].pc # "idle" => Fired(h[p]) \subseteq AloneFired(h[p])
        /\ h[p].pc = "done" => Fired(h[p]) = AloneFired(h[p])

\* A step is one handler's: it leaves every other handler's state and the
\* configuration as they were.
OneHandlerSteps ==
    /\ config' = config
    /\ \A p, q \in DOMAIN h : p # q => (h'[p] = h[p] \/ h'[q] = h[q])

\* C18: with handlers interleaving at their suspension points, each event
\* fires the channels it fires when handled alone under the same
\* collaborator responses; no handler's step changes another handler's state,
\* and the configuration is never modified after load.
C18_Independent == []FiredAsAlone /\ [][OneHandlerSteps]_vars

\* C18 witness: one handler has returned suppressed while the other, started
\* meanwhile for an error event, is still waiting for its toast.
C18_Witness ==
    /\ DOMAIN h = ConcTasks
    /\ h["t1"].pc = "done" /\ h["t1"].ev.type = "session.idle" /\ Fired(h["t1"]) = {}
    /\ h["t1"].terminalFocused
    /\ h["t2"].pc = "toast" /\ h["t2"].ev.type = "session.error"

\* The places of a listing: OS window, tab, pane.
Places(payload) ==
    { <<w, t, q>> \in (1..Len(payload)) \X (1..MaxPanes + 1) \X (1..MaxPanes + 1) :
        /\ t <= Len(payload[w])
        /\ q <= Len(payload[w][t]) }

\* Place a comes before place b in window -> tab -> pane order.
ComesBefore(a, b) ==
    \/ a[1] < b[1]
    \/ a[1] = b[1] /\ a[2] < b[2]
    \/ a[1] = b[1] /\ a[2] = b[2] /\ a[3] < b[3]

PaneAt(payload, a) == payload[a[1]][a[2]][a[3]]

\* The decimal text of the pane ids used.
IdText(id) == CASE id = 7 -> "7" [] id = 8 -> "8" [] OTHER -> "?"

\* C21: from the listing the pane matcher picks the id of the first pane, in
\* window -> tab -> pane order, that has an id and a focus flag set, or, with
\* no such pane, of the first pane that has an id; it answers focused iff that
\* id is the current pane's and not focused otherwise; it answers unknown when
\* the tool failed, the output was blank or unparsable, or no pane has an id.
C21_PanePicked ==
    calc.fn = "isCurrentKittyWindowFocused" =>
        LET out == calc.paneOut
            listed == out.status = "json" /\ out.isArray
            withId == IF listed
                      THEN { a \in Places(out.payload) : PaneAt(out.payload, a).id # NoId }
                      ELSE {}
            flagged == { a \in withId : PaneAt(out.payload, a).flagged }
            among == IF flagged # {} THEN flagged ELSE withId
            first == CHOOSE a \in among : \A b \in among : a = b \/ ComesBefore(a, b)
        IN  IF among = {}
            THEN calc.picked = Undefined /\ calc.answer = "undefined"
            ELSE /\ calc.picked = IdText(PaneAt(out.payload, first).id)
                 /\ calc.answer = (IF calc.picked = calc.value THEN "true" ELSE "false")

\* C21 witness: no pane is flagged, the first pane has no id, and the id of
\* the second pane, in the next OS window, is the current pane's.
C21_Witness ==
    /\ calc.fn = "isCurrentKittyWindowFocused"
    /\ calc.paneOut.payload = << << <<Pane(NoId, FALSE)>> >>, << <<Pane(7, FALSE)>> >> >>
    /\ calc.value = "7"
    /\ calc.answer = "true"

\* How many times the handler has run kitty @ ls.
ListQueries(r) == Cardinality({ i \in 1..Len(r.calls) : r.calls[i] = "kitty-ls" })

\* kitty @ ls has answered, and the answer names no pane: the tool failed,
\* the output was blank, unparsable or no array, or no listed pane has an id.
NoUsableResult(out) ==
    /\ out # NoPaneOutput
    /\ \/ out.status # "json"
       \/ ~out.isArray
       \/ \A i \in 1..Len(PanesInOrder(out.payload)) : PanesInOrder(out.payload)[i].id = NoId

\* C22 as claimed: when the list query filtered to focused state yields no
\* usable result, the pane matcher issues a second, unfiltered list query
\* before it reports unknown.
C22_FallbackQuery ==
    \A p \in DOMAIN h : NoUsableResult(h[p].paneOut) => ListQueries(h[p]) >= 2

\* C22 as the code has it: the pane matcher issues one list query, filtered
\* to focused state; when it yields no usable result the matcher reports
\* unknown at once, no further query is issued, and the focus detector's
\* verdict stands.
C22_SingleQuery ==
    \A p \in DOMAIN h :
        LET r == h[p]
        IN  /\ r.paneOut # NoPaneOutput => ListQueries(r) = 1
            /\ NoUsableResult(r.paneOut) =>
                   /\ r.sameKittyWindowFocused = "undefined"
                   /\ r.pc = "done"
                   /\ r.suppressWhileFocused = r.terminalFocused
                   /\ r.calls[Len(r.calls)] = "kitty-ls"

\* C22 witness: kitty printed nothing, and the handler returned with the
\* notification suppressed after that one query.
C22_Witness ==
    \E p \in DOMAIN h :
        /\ h[p].paneOut.status = "blank"
        /\ h[p].pc = "done"
        /\ ListQueries(h[p]) = 1
        /\ Fired(h[p]) = {}

\* The event is rejected before resolution: the toggle of its kind is off,
\* or it is a session.error whose error type is "aborted".
RejectedBeforeResolution(r) ==
    \/ r.ev.type = "session.error" /\ (~config.notifyOnError \/ r.ev.errorType = "aborted")
    \/ r.ev.type = "question.asked" /\ ~config.notifyOnQuestion
    \/ r.ev.type \in {"permission.updated", "permission.asked"} /\ ~config.notifyOnPermission

\* C23: for an event rejected before resolution the handler performs no
\* external operation at all: no session query, no focus or pane query, no
\* toast, banner or bell; it returns at once.
C23_RejectedDoesNothing ==
    \A p \in DOMAIN h :
        RejectedBeforeResolution(h[p]) =>
            /\ h[p].calls = << >>
            /\ h[p].toasts = << >> /\ h[p].banners = << >>
            /\ ~h[p].resolved /\ ~h[p].passed
            /\ h[p].pc = "done"

\* C23 witness: an aborted session.error with the error toggle on has been
\* handled.
C23_Witness ==
    \E p \in DOMAIN h :
        /\ h[p].ev.type = "session.error" /\ h[p].ev.errorType = "aborted"
        /\ config.notifyOnError
        /\ h[p].pc = "done" /\ h[p].calls = << >>

====
